---- MODULE Spec2Model ----
(***************************************************************************)
(* Verification model of the two Verilator simulation drivers:             *)
(*   Variant A  P_S_FIFO/dv/tb_fifo.cpp         (self-clocked model)       *)
(*   Variant B  hello_verilator/dv/sim_main.cpp (driver-toggled clock)     *)
(* One action per statement of main(); the compiled model and the VCD      *)
(* recorder are external, so eval() chooses nondeterministically whether   *)
(* $finish is reached, and eval()/dump() may abort the process.            *)
(***************************************************************************)
EXTENDS Integers, Sequences, FiniteSets, TLC

\* while (... && time < 1000)
timeBound == 1000

\* Exploration bounds on the number of loop iterations.
MaxIterA == 40
MaxIterB == 1002

VARIABLES
    variant,    \* which driver runs: "A" (tb_fifo) or "B" (sim_main)
    pc,         \* next statement of main()
    top,        \* model instance: "none", "live", "deleted"
    clk,        \* top->clk (Variant B)
    traceOn,    \* Verilated::traceEverOn flag
    tfp,        \* recorder: [alloc, bound, open]
    ctxTime,    \* the context's time (contextp->time())
    gotFinish,  \* the context's finished flag
    time,       \* Variant B's local `int time`
    printed,    \* times written to std::cout by the final message (Variant B)
    calls,      \* history: setup/teardown calls in order
    dumps,      \* history: time arguments of dump() in order
    clks,       \* history: value of top->clk at each eval() (Variant B)
    evals,      \* history: number of eval() calls
    iters,      \* history: number of loop-body entries
    toggles,    \* history: number of clock inversions
    finishAt,   \* history: ordinal of the eval() that first set gotFinish, 0 if none
    finishTime, \* history: context time at that eval(), 0 if none
    failed      \* history: an eval() or dump() call did not return

vars == <<variant, pc, top, clk, traceOn, tfp, ctxTime, gotFinish, time,
          printed, calls, dumps, clks, evals, iters, toggles, finishAt,
          finishTime, failed>>

ctxVars == <<ctxTime, gotFinish>>
recVars == <<tfp, dumps>>
histVars == <<evals, iters, toggles, finishAt, finishTime, clks>>

Init ==
    /\ variant \in {"A", "B"}
    /\ pc = IF variant = "A" THEN "new_ctx" ELSE "new_top"
    /\ top = "none"
    /\ clk = 0
    /\ traceOn = FALSE
    /\ tfp = [alloc |-> FALSE, bound |-> FALSE, open |-> FALSE]
    /\ ctxTime = 0
    /\ gotFinish = FALSE
    /\ time = 0
    /\ printed = <<>>
    /\ calls = <<>>
    /\ dumps = <<>>
    /\ clks = <<>>
    /\ evals = 0
    /\ iters = 0
    /\ toggles = 0
    /\ finishAt = 0
    /\ finishTime = 0
    /\ failed = FALSE

\* C++ logical negation of an integral value: !x
LogicalNot(x) == IF x = 0 THEN 1 ELSE 0

\* What one eval() does to the finished flag: the model may execute $finish.
\* The flag is never cleared.
EvalFinish(f) ==
    /\ gotFinish' = (gotFinish \/ f)
    /\ evals' = evals + 1
    /\ IF ~gotFinish /\ f
       THEN finishAt' = evals + 1 /\ finishTime' = ctxTime
       ELSE UNCHANGED <<finishAt, finishTime>>

(***************************************************************************)
(* Variant A: tb_fifo.cpp                                                  *)
(***************************************************************************)
NewContextA ==
    /\ variant = "A" /\ pc = "new_ctx"
    /\ ctxTime' = 0
    /\ gotFinish' = FALSE
    /\ pc' = "new_top"
    /\ UNCHANGED <<variant, failed, top, clk, traceOn, tfp, time, printed, calls,
                   dumps, histVars>>

\* new Vtb_fifo{contextp.get()}: the model's code is external; it is handed
\* the context and may already have signalled completion when it returns.
NewTopA ==
    /\ variant = "A" /\ pc = "new_top"
    /\ top' = "live"
    /\ \E f \in BOOLEAN : gotFinish' = (gotFinish \/ f)
    /\ calls' = Append(calls, "new_top")
    /\ pc' = "traceEverOn"
    /\ UNCHANGED <<variant, failed, clk, traceOn, time, printed, ctxTime,
                   recVars, histVars>>

TraceEverOnA ==
    /\ variant = "A" /\ pc = "traceEverOn"
    /\ traceOn' = TRUE
    /\ calls' = Append(calls, "traceEverOn")
    /\ pc' = "new_tfp"
    /\ UNCHANGED <<variant, failed, top, clk, time, printed, ctxVars, recVars,
                   histVars>>

NewTfpA ==
    /\ variant = "A" /\ pc = "new_tfp"
    /\ tfp' = [alloc |-> TRUE, bound |-> FALSE, open |-> FALSE]
    /\ pc' = "trace"
    /\ UNCHANGED <<variant, failed, top, clk, traceOn, time, printed, calls, dumps,
                   ctxVars, histVars>>

TraceA ==
    /\ variant = "A" /\ pc = "trace"
    /\ tfp' = [tfp EXCEPT !.bound = TRUE]
    /\ calls' = Append(calls, "trace")
    /\ pc' = "open"
    /\ UNCHANGED <<variant, failed, top, clk, traceOn, time, printed, dumps,
                   ctxVars, histVars>>

\* Variant of OpenA: the open() call is left out.
OpenA_Missing ==
    /\ variant = "A" /\ pc = "open"
    /\ pc' = "while"
    /\ UNCHANGED <<variant, failed, top, clk, traceOn, time, printed, calls,
                   ctxVars, recVars, histVars>>

OpenA ==
    /\ variant = "A" /\ pc = "open"
    /\ tfp' = [tfp EXCEPT !.open = TRUE]
    /\ calls' = Append(calls, "open")
    /\ pc' = "while"
    /\ UNCHANGED <<variant, failed, top, clk, traceOn, time, printed, dumps,
                   ctxVars, histVars>>

\* Variant of LoopCondA: the negation is lost.
LoopCondA_Inverted(f) == f

\* while (!contextp->gotFinish())
LoopCondA(f) == ~f

WhileA ==
    /\ variant = "A" /\ pc = "while"
    /\ IF LoopCondA(gotFinish)
       THEN /\ iters < MaxIterA
            /\ iters' = iters + 1
            /\ pc' = "timeInc"
       ELSE /\ iters' = iters
            /\ pc' = "close"
    /\ UNCHANGED <<variant, failed, top, clk, traceOn, time, printed, calls,
                   ctxVars, recVars, evals, toggles, finishAt, finishTime,
                   clks>>

\* Variant of TimeIncA: timeInc(0), the context time does not advance.
TimeIncA_Zero ==
    /\ variant = "A" /\ pc = "timeInc"
    /\ ctxTime' = ctxTime
    /\ pc' = "eval"
    /\ UNCHANGED <<variant, failed, top, clk, traceOn, time, printed, calls,
                   gotFinish, recVars, histVars>>

TimeIncA ==
    /\ variant = "A" /\ pc = "timeInc"
    /\ ctxTime' = ctxTime + 1
    /\ pc' = "eval"
    /\ UNCHANGED <<variant, failed, top, clk, traceOn, time, printed, calls,
                   gotFinish, recVars, histVars>>

EvalA ==
    /\ variant = "A" /\ pc = "eval"
    /\ \E f \in BOOLEAN : EvalFinish(f)
    /\ pc' = "dump"
    /\ UNCHANGED <<variant, failed, top, clk, traceOn, time, printed, calls,
                   ctxTime, recVars, iters, toggles, clks>>

\* Variant of DumpA: the dump is skipped once the model has finished.
DumpA_SkipOnFinish ==
    /\ variant = "A" /\ pc = "dump"
    /\ dumps' = IF gotFinish THEN dumps ELSE Append(dumps, ctxTime)
    /\ pc' = "while"
    /\ UNCHANGED <<variant, failed, top, clk, traceOn, time, printed, calls,
                   ctxVars, tfp, histVars>>

\* Variant of DumpA: the snapshot is written twice.
DumpA_Twice ==
    /\ variant = "A" /\ pc = "dump"
    /\ dumps' = Append(Append(dumps, ctxTime), ctxTime)
    /\ pc' = "while"
    /\ UNCHANGED <<variant, failed, top, clk, traceOn, time, printed, calls,
                   ctxVars, tfp, histVars>>

DumpA ==
    /\ variant = "A" /\ pc = "dump"
    /\ dumps' = Append(dumps, ctxTime)
    /\ pc' = "while"
    /\ UNCHANGED <<variant, failed, top, clk, traceOn, time, printed, calls,
                   ctxVars, tfp, histVars>>

\* eval() or dump() does not return: the library aborts the process.
AbortA ==
    /\ variant = "A" /\ pc \in {"eval", "dump"}
    /\ failed' = TRUE
    /\ pc' = "aborted"
    /\ UNCHANGED <<variant, top, clk, traceOn, time, printed, calls,
                   ctxVars, recVars, histVars>>

CloseA ==
    /\ variant = "A" /\ pc = "close"
    /\ tfp' = [tfp EXCEPT !.open = FALSE]
    /\ calls' = Append(calls, "close")
    /\ pc' = "print"
    /\ UNCHANGED <<variant, failed, top, clk, traceOn, time, printed, dumps,
                   ctxVars, histVars>>

\* the two banner lines, then return 0
PrintA ==
    /\ variant = "A" /\ pc = "print"
    /\ pc' = "done"
    /\ UNCHANGED <<variant, failed, top, clk, traceOn, time, printed, calls,
                   ctxVars, recVars, histVars>>

(***************************************************************************)
(* Variant B: sim_main.cpp                                                 *)
(***************************************************************************)
\* new Vtb_top: the input port clk takes its reset value, one bit; the
\* model's code is external and may already have signalled completion.
NewTopB ==
    /\ variant = "B" /\ pc = "new_top"
    /\ top' = "live"
    /\ clk' \in {0, 1}
    /\ \E f \in BOOLEAN : gotFinish' = (gotFinish \/ f)
    /\ calls' = Append(calls, "new_top")
    /\ pc' = "traceEverOn"
    /\ UNCHANGED <<variant, failed, traceOn, time, printed, ctxTime,
                   recVars, histVars>>

TraceEverOnB ==
    /\ variant = "B" /\ pc = "traceEverOn"
    /\ traceOn' = TRUE
    /\ calls' = Append(calls, "traceEverOn")
    /\ pc' = "new_tfp"
    /\ UNCHANGED <<variant, failed, top, clk, time, printed, ctxVars, recVars,
                   histVars>>

NewTfpB ==
    /\ variant = "B" /\ pc = "new_tfp"
    /\ tfp' = [alloc |-> TRUE, bound |-> FALSE, open |-> FALSE]
    /\ pc' = "trace"
    /\ UNCHANGED <<variant, failed, top, clk, traceOn, time, printed, calls, dumps,
                   ctxVars, histVars>>

TraceB ==
    /\ variant = "B" /\ pc = "trace"
    /\ tfp' = [tfp EXCEPT !.bound = TRUE]
    /\ calls' = Append(calls, "trace")
    /\ pc' = "open"
    /\ UNCHANGED <<variant, failed, top, clk, traceOn, time, printed, dumps,
                   ctxVars, histVars>>

OpenB ==
    /\ variant = "B" /\ pc = "open"
    /\ tfp' = [tfp EXCEPT !.open = TRUE]
    /\ calls' = Append(calls, "open")
    /\ pc' = "init_time"
    /\ UNCHANGED <<variant, failed, top, clk, traceOn, time, printed, dumps,
                   ctxVars, histVars>>

\* Variant of InitTimeB: the counter starts at one.
InitTimeB_One ==
    /\ variant = "B" /\ pc = "init_time"
    /\ time' = 1
    /\ pc' = "while"
    /\ UNCHANGED <<variant, failed, top, clk, traceOn, printed, calls,
                   ctxVars, recVars, histVars>>

\* int time = 0;
InitTimeB ==
    /\ variant = "B" /\ pc = "init_time"
    /\ time' = 0
    /\ pc' = "while"
    /\ UNCHANGED <<variant, failed, top, clk, traceOn, printed, calls, ctxVars,
                   recVars, histVars>>

\* Variant of LoopCondB: the bound is tested with <=.
LoopCondB_OffByOne(f, t) == ~f /\ t <= timeBound

\* Variant of LoopCondB: the finished flag is not consulted.
LoopCondB_IgnoreFinish(f, t) == t < timeBound

\* while (!Verilated::gotFinish() && time < 1000)
LoopCondB(f, t) == ~f /\ t < timeBound

\* Variant of WhileB: the test is made after the body (do ... while).
WhileB_DoWhile ==
    /\ variant = "B" /\ pc = "while"
    /\ IF iters = 0 \/ LoopCondB(gotFinish, time)
       THEN /\ iters < MaxIterB
            /\ iters' = iters + 1
            /\ pc' = "toggle"
       ELSE /\ iters' = iters
            /\ pc' = "close"
    /\ UNCHANGED <<variant, failed, top, clk, traceOn, time, printed, calls,
                   ctxVars, recVars, evals, toggles, finishAt, finishTime,
                   clks>>

WhileB ==
    /\ variant = "B" /\ pc = "while"
    /\ IF LoopCondB(gotFinish, time)
       THEN /\ iters < MaxIterB
            /\ iters' = iters + 1
            /\ pc' = "toggle"
       ELSE /\ iters' = iters
            /\ pc' = "close"
    /\ UNCHANGED <<variant, failed, top, clk, traceOn, time, printed, calls,
                   ctxVars, recVars, evals, toggles, finishAt, finishTime,
                   clks>>

\* Variant of ToggleB: the clock is driven high instead of inverted.
ToggleB_SetHigh ==
    /\ variant = "B" /\ pc = "toggle"
    /\ clk' = 1
    /\ toggles' = toggles + 1
    /\ pc' = "eval"
    /\ UNCHANGED <<variant, failed, top, traceOn, time, printed, calls, ctxVars,
                   recVars, evals, iters, finishAt, finishTime, clks>>

\* top->clk = !top->clk;
ToggleB ==
    /\ variant = "B" /\ pc = "toggle"
    /\ clk' = LogicalNot(clk)
    /\ toggles' = toggles + 1
    /\ pc' = "eval"
    /\ UNCHANGED <<variant, failed, top, traceOn, time, printed, calls, ctxVars,
                   recVars, evals, iters, finishAt, finishTime, clks>>

EvalB ==
    /\ variant = "B" /\ pc = "eval"
    /\ \E f \in BOOLEAN : EvalFinish(f)
    /\ clks' = Append(clks, clk)
    /\ pc' = "dump"
    /\ UNCHANGED <<variant, failed, top, clk, traceOn, time, printed, calls,
                   ctxTime, recVars, iters, toggles>>

\* Variant of DumpB: the snapshot is stamped with the time after the step.
DumpB_NextTime ==
    /\ variant = "B" /\ pc = "dump"
    /\ dumps' = Append(dumps, time + 1)
    /\ pc' = "inc"
    /\ UNCHANGED <<variant, failed, top, clk, traceOn, time, printed, calls,
                   ctxVars, tfp, histVars>>

DumpB ==
    /\ variant = "B" /\ pc = "dump"
    /\ dumps' = Append(dumps, time)
    /\ pc' = "inc"
    /\ UNCHANGED <<variant, failed, top, clk, traceOn, time, printed, calls,
                   ctxVars, tfp, histVars>>

\* Variant of IncTimeB: the step also advances the context's time.
IncTimeB_ContextTime ==
    /\ variant = "B" /\ pc = "inc"
    /\ time' = time + 1
    /\ ctxTime' = ctxTime + 1
    /\ pc' = "while"
    /\ UNCHANGED <<variant, failed, top, clk, traceOn, printed, calls,
                   gotFinish, recVars, histVars>>

\* Variant of IncTimeB: the counter advances by two.
IncTimeB_ByTwo ==
    /\ variant = "B" /\ pc = "inc"
    /\ time' = time + 2
    /\ pc' = "while"
    /\ UNCHANGED <<variant, failed, top, clk, traceOn, printed, calls, ctxVars,
                   recVars, histVars>>

\* Variant of IncTimeB: the counter is not advanced.
IncTimeB_Stuck ==
    /\ variant = "B" /\ pc = "inc"
    /\ time' = time
    /\ pc' = "while"
    /\ UNCHANGED <<variant, failed, top, clk, traceOn, printed, calls, ctxVars,
                   recVars, histVars>>

\* time++;
IncTimeB ==
    /\ variant = "B" /\ pc = "inc"
    /\ time' = time + 1
    /\ pc' = "while"
    /\ UNCHANGED <<variant, failed, top, clk, traceOn, printed, calls, ctxVars,
                   recVars, histVars>>

\* Variant of AbortB: the failure is caught and the failed call is retried.
AbortB_Retry ==
    /\ variant = "B" /\ pc \in {"eval", "dump"}
    /\ ~failed
    /\ failed' = TRUE
    /\ pc' = pc
    /\ UNCHANGED <<variant, top, clk, traceOn, time, printed, calls,
                   ctxVars, recVars, histVars>>

\* eval() or dump() does not return: the library aborts the process.
AbortB ==
    /\ variant = "B" /\ pc \in {"eval", "dump"}
    /\ failed' = TRUE
    /\ pc' = "aborted"
    /\ UNCHANGED <<variant, top, clk, traceOn, time, printed, calls,
                   ctxVars, recVars, histVars>>

\* Variant of CloseB: the close() call is left out.
CloseB_Missing ==
    /\ variant = "B" /\ pc = "close"
    /\ pc' = "delete"
    /\ UNCHANGED <<variant, failed, top, clk, traceOn, time, printed, calls,
                   ctxVars, recVars, histVars>>

CloseB ==
    /\ variant = "B" /\ pc = "close"
    /\ tfp' = [tfp EXCEPT !.open = FALSE]
    /\ calls' = Append(calls, "close")
    /\ pc' = "delete"
    /\ UNCHANGED <<variant, failed, top, clk, traceOn, time, printed, dumps,
                   ctxVars, histVars>>

DeleteTopB ==
    /\ variant = "B" /\ pc = "delete"
    /\ top' = "deleted"
    /\ calls' = Append(calls, "delete")
    /\ pc' = "print"
    /\ UNCHANGED <<variant, failed, clk, traceOn, time, printed, ctxVars, recVars,
                   histVars>>

\* "Simulation finished at time " << time, then return 0
PrintB ==
    /\ variant = "B" /\ pc = "print"
    /\ printed' = Append(printed, time)
    /\ pc' = "done"
    /\ UNCHANGED <<variant, failed, top, clk, traceOn, time, calls, ctxVars,
                   recVars, histVars>>

Next ==
    \/ NewContextA \/ NewTopA \/ TraceEverOnA \/ NewTfpA \/ TraceA \/ OpenA
    \/ WhileA \/ TimeIncA \/ EvalA \/ DumpA \/ AbortA \/ CloseA \/ PrintA
    \/ NewTopB \/ TraceEverOnB \/ NewTfpB \/ TraceB \/ OpenB \/ InitTimeB
    \/ WhileB \/ ToggleB \/ EvalB \/ DumpB \/ IncTimeB \/ AbortB \/ CloseB
    \/ DeleteTopB \/ PrintB

Spec == Init /\ [][Next]_vars

\* The program is one thread of control: a statement that can run, runs.
FairSpec == Spec /\ WF_vars(Next)

(***************************************************************************)
(* Helpers over the histories                                              *)
(***************************************************************************)
Count(e) == Cardinality({i \in DOMAIN calls : calls[i] = e})

\* position of the first call of e, 0 when it was never called
Pos(e) ==
    IF \E i \in DOMAIN calls : calls[i] = e
    THEN CHOOSE i \in DOMAIN calls :
            calls[i] = e /\ \A j \in 1..(i - 1) : calls[j] # e
    ELSE 0

TypeOK ==
    /\ variant \in {"A", "B"}
    /\ top \in {"none", "live", "deleted"}
    /\ clk \in {0, 1}
    /\ traceOn \in BOOLEAN
    /\ gotFinish \in BOOLEAN
    /\ ctxTime \in Nat /\ time \in Nat /\ evals \in Nat /\ iters \in Nat

(***************************************************************************)
(* Properties                                                              *)
(***************************************************************************)

\* C1: in every run of either driver that leaves the loop and returns,
\* close() has been called exactly once (never more than once at any
\* point), and once close() has been called no further dump() happens, so
\* close() comes after the last dump().
C1_CloseOnceAfterLastDump ==
    /\ [](/\ Count("close") <= 1
          /\ pc = "done" => Count("close") = 1)
    /\ [][Count("close") >= 1 => dumps' = dumps]_vars

C1_Witness ==
    /\ pc = "done"
    /\ Count("close") = 1
    /\ Len(dumps) >= 2
    /\ ~tfp.open

\* C2: in Variant A the times passed to dump() are strictly increasing and
\* the first one is 1.
C2_DumpTimesIncreaseFromOne ==
    variant = "A" =>
        /\ Len(dumps) > 0 => dumps[1] = 1
        /\ \A i \in 1..(Len(dumps) - 1) : dumps[i] < dumps[i + 1]

C2_Witness ==
    /\ variant = "A"
    /\ Len(dumps) >= 3
    /\ dumps[1] = 1

\* C3: in Variant B the loop body is entered at most timeBound times, the
\* counter and the reported time never exceed timeBound, and when the
\* counter has reached timeBound the loop test leaves the loop whatever the
\* finished flag is.
C3_LoopBounded ==
    /\ [](variant = "B" =>
            /\ iters <= timeBound
            /\ time <= timeBound
            /\ \A i \in DOMAIN printed : printed[i] <= timeBound)
    /\ [][(variant = "B" /\ pc = "while" /\ time >= timeBound)
            => pc' = "close"]_vars

C3_Witness ==
    /\ variant = "B"
    /\ pc = "close"
    /\ ~gotFinish
    /\ time = timeBound
    /\ iters = timeBound

\* C4: in Variant B the clock values seen by eval() in consecutive
\* iterations differ, the clock is inverted exactly once per iteration, and
\* the value repeats every two iterations.
C4_ClockAlternates ==
    variant = "B" =>
        /\ \A i \in 1..(Len(clks) - 1) : clks[i] # clks[i + 1]
        /\ \A i \in 1..(Len(clks) - 2) : clks[i] = clks[i + 2]
        /\ toggles = IF pc = "toggle" THEN iters - 1 ELSE iters

C4_Witness ==
    /\ variant = "B"
    /\ Len(clks) >= 4
    /\ clks[1] = 1
    /\ clks[2] = 0

\* C5: in Variant A, when the finished flag was first set by the eval() at
\* context time N and the loop has been left, the dump() calls made are
\* exactly those with times 1, 2, ..., N in that order; at the end of the
\* run the file has been opened once and closed once.
C5_FinishAtTimeN ==
    (variant = "A" /\ finishAt # 0 /\ pc \in {"close", "print", "done"})
        => /\ finishTime >= 1
           /\ dumps = [i \in 1..finishTime |-> i]
           /\ pc = "done" => Count("open") = 1 /\ Count("close") = 1

C5_Witness ==
    /\ variant = "A"
    /\ pc = "done"
    /\ finishTime = 37
    /\ Len(dumps) = 37
    /\ dumps[37] = 37

\* C6: in Variant B, when the finished flag was set by the k-th eval(), the
\* loop is left in iteration k, the clock has been inverted k times and the
\* reported time is k.
C6_FinishAtIterationK ==
    (variant = "B" /\ finishAt # 0 /\ pc # "aborted")
        => /\ finishAt >= 1 /\ finishAt <= timeBound
           /\ iters = finishAt
           /\ toggles = finishAt
           /\ pc = "done" => printed = <<finishAt>>

C6_Witness ==
    /\ variant = "B"
    /\ pc = "done"
    /\ finishAt = 42
    /\ printed = <<42>>
    /\ toggles = 42

\* C7: in Variant B, when the run ends with the finished flag never set, the
\* loop has run exactly 1000 iterations, the counter is 1000, the clock has
\* been inverted 1000 times and the reported time is 1000.
C7_NeverFinished ==
    (variant = "B" /\ pc = "done" /\ ~gotFinish)
        => /\ iters = 1000
           /\ time = 1000
           /\ toggles = 1000
           /\ printed = <<1000>>

C7_Witness ==
    /\ variant = "B"
    /\ pc = "done"
    /\ finishAt = 0
    /\ printed = <<1000>>
    /\ toggles = 1000

\* C8: in both drivers traceEverOn is called before the model instance is
\* constructed: whenever a model exists, tracing has already been enabled.
C8_TraceEverOnBeforeConstruct ==
    Pos("new_top") # 0 =>
        /\ Pos("traceEverOn") # 0
        /\ Pos("traceEverOn") < Pos("new_top")

\* C9: in both drivers the recorder is bound once, after the model is
\* constructed, the file is opened once, both before the first dump(); every
\* dump() is issued on a bound and open recorder.
C9_BoundAndOpenBeforeDump ==
    /\ [](/\ Count("trace") <= 1
          /\ Count("open") <= 1
          /\ Pos("trace") # 0 =>
                (Pos("new_top") # 0 /\ Pos("new_top") < Pos("trace"))
          /\ Len(dumps) > 0 => Count("trace") = 1 /\ Count("open") = 1)
    /\ [][dumps' # dumps => tfp.bound /\ tfp.open]_vars

C9_Witness ==
    /\ variant = "A"
    /\ Len(dumps) >= 1
    /\ tfp.bound
    /\ tfp.open
    /\ Pos("trace") = 3
    /\ Pos("open") = 4

\* C10: Variant B always terminates: unless an eval() or dump() call fails to
\* return, the driver eventually has left the loop, closed the recorder and
\* reported the final time.
C10_VariantBTerminates ==
    (variant = "B") ~>
        \/ pc = "aborted"
        \/ (pc = "done" /\ Count("close") = 1 /\ printed = <<time>>)

C10_Witness ==
    /\ variant = "B"
    /\ pc = "done"
    /\ ~gotFinish
    /\ Count("close") = 1
    /\ printed = <<time>>

\* C11: in Variant A the loop is left only through the finished flag: while
\* the flag is false the loop test always enters the body, whatever the time
\* is; close() has been called only if the flag is set; and once the flag is
\* set the driver goes on to close() and returns, unless a call aborts.
C11_ExitOnlyOnFinish ==
    /\ [](variant = "A" /\ Count("close") >= 1 => gotFinish)
    /\ [][(variant = "A" /\ pc = "while" /\ ~gotFinish)
            => pc' = "timeInc"]_vars
    /\ [][(variant = "A" /\ pc = "while" /\ gotFinish)
            => pc' = "close"]_vars
    /\ (variant = "A" /\ gotFinish) ~>
            \/ pc = "aborted"
            \/ (pc = "done" /\ Count("close") = 1)

C11_Witness ==
    /\ variant = "A"
    /\ pc = "done"
    /\ gotFinish
    /\ finishAt = 5
    /\ Count("close") = 1

\* C13: the time counter (context time in Variant A, the local counter in
\* Variant B) is 0 when the loop is first tested, equals the number of
\* completed iterations at every loop test, grows by exactly 1 in its
\* statement of the loop body and never decreases.
C13_TimeCounts ==
    /\ [](/\ (variant = "A" /\ pc = "while") => ctxTime = iters
          /\ (variant = "B" /\ pc = "while") => time = iters)
    /\ [][/\ ctxTime' >= ctxTime
          /\ time' >= time
          /\ (variant = "A" /\ pc = "timeInc") => ctxTime' = ctxTime + 1
          /\ (variant = "B" /\ pc = "inc") => time' = time + 1]_vars

C13_Witness ==
    /\ variant = "B"
    /\ pc = "while"
    /\ time = 3
    /\ iters = 3

\* C14: on every path on which the process ends after open(), whether by
\* returning from main or by aborting, close() has been performed.
C14_CloseOnEveryExit ==
    (pc \in {"done", "aborted"} /\ Count("open") >= 1)
        => Count("close") = 1

\* C15: a failure of eval() or dump() is final: the process is aborted and
\* takes no further step (no toggle, time advance, eval() or dump()), so at
\* most one call ever fails and it is not repeated.
C15_FailureIsFinal ==
    /\ [](failed => pc = "aborted")
    /\ [][~failed]_vars

C15_Witness ==
    /\ failed
    /\ pc = "aborted"
    /\ Len(dumps) >= 1
    /\ evals = Len(dumps) + 1

\* Number of loop-body entries whose statement at one of the labels in S
\* is still to run: 1 when the driver stands inside the body at or before
\* that statement, else 0.
Pending(S) == IF pc \in S THEN 1 ELSE 0

\* C16: every iteration runs its statements once each in the fixed order
\* (A: advance time, eval, dump; B: toggle, eval, dump, increment), so
\* between two consecutive dump() calls there is exactly one eval(), and
\* when the loop has been left there are as many eval() as dump() calls.
C16_FixedOrderOncePerIteration ==
    /\ Len(dumps) <= evals /\ evals <= Len(dumps) + 1
    /\ (variant = "A" /\ ~failed) =>
        /\ ctxTime = iters - Pending({"timeInc"})
        /\ evals = iters - Pending({"timeInc", "eval"})
        /\ Len(dumps) = iters - Pending({"timeInc", "eval", "dump"})
    /\ (variant = "B" /\ ~failed) =>
        /\ toggles = iters - Pending({"toggle"})
        /\ evals = iters - Pending({"toggle", "eval"})
        /\ Len(dumps) = iters - Pending({"toggle", "eval", "dump"})
        /\ time = iters - Pending({"toggle", "eval", "dump", "inc"})
    /\ pc \in {"close", "delete", "print", "done"} => evals = Len(dumps)

C16_Witness ==
    /\ variant = "A"
    /\ pc = "close"
    /\ evals = 4
    /\ Len(dumps) = 4
    /\ iters = 4

\* C17: in Variant B the i-th dump() carries time i-1 and the dumped times
\* strictly increase, so no two dumps carry the same time; when the run has returned, with n the reported time, the
\* dumped times are exactly 0..n-1 and n is the number of iterations, of
\* dump() calls and of clock inversions, on both exit paths.
C17_DumpTimesFromZero ==
    variant = "B" =>
        /\ \A i \in DOMAIN dumps : dumps[i] = i - 1
        /\ \A i \in 1..(Len(dumps) - 1) : dumps[i] < dumps[i + 1]
        /\ pc = "done" =>
            /\ printed = <<time>>
            /\ dumps = [i \in 1..time |-> i - 1]
            /\ iters = time
            /\ toggles = time

C17_Witness ==
    /\ variant = "B"
    /\ pc = "done"
    /\ gotFinish
    /\ printed = <<7>>
    /\ dumps = <<0, 1, 2, 3, 4, 5, 6>>

\* C18: in Variant B the context's time is never advanced: it is 0 in every
\* reachable state while the local counter runs from 0 up to at most 1000.
C18_ContextTimeUntouched ==
    /\ [](variant = "B" => ctxTime = 0 /\ time \in 0..timeBound)
    /\ [][variant = "B" => ctxTime' = ctxTime]_vars

C18_Witness ==
    /\ variant = "B"
    /\ pc = "dump"
    /\ time = 500
    /\ ctxTime = 0

\* C19: when the finished flag is already set at the first loop test, no
\* iteration runs: no time advance, clock inversion, eval() or dump(); the
\* file is still opened once and closed once, and Variant B reports time 0.
C19_ZeroIterations ==
    (gotFinish /\ finishAt = 0) =>
        /\ iters = 0 /\ evals = 0 /\ toggles = 0
        /\ dumps = <<>>
        /\ ctxTime = 0 /\ time = 0
        /\ ~failed
        /\ pc = "done" =>
            /\ Count("open") = 1 /\ Count("close") = 1
            /\ variant = "B" => printed = <<0>>

C19_Witness ==
    /\ variant = "B"
    /\ pc = "done"
    /\ gotFinish
    /\ finishAt = 0
    /\ printed = <<0>>
    /\ Count("open") = 1
====
